---- MODULE Spec2Model ----
(***************************************************************************)
(* Photo archive backend (FastAPI + SQLAlchemy + a storage directory).     *)
(*                                                                         *)
(* State: the two tables (users, photos), the files under STORAGE_DIR and  *)
(* THUMBNAIL_DIR, the server clock, and for every server worker the        *)
(* position of the request handler it is running.  A handler is cut into   *)
(* steps at its database statements; between two steps another worker may  *)
(* run against the same database and the same directories.                 *)
(***************************************************************************)
EXTENDS Integers, Sequences, FiniteSets, TLC

VARIABLES
    users,      \* table users:  id -> row                      (models/user.py)
    photos,     \* table photos: id -> row                      (models/photo.py)
    files,      \* file system:  path -> contents               (STORAGE_DIR, THUMBNAIL_DIR)
    userSeq,    \* number of user ids handed out by uuid4
    photoSeq,   \* number of photo ids handed out by uuid4
    now,        \* the clock behind datetime.now() and func.now()
    pc,         \* worker -> position in its handler
    req,        \* worker -> the request it is handling, with the handler's locals
    last,       \* the response the latest step sent (NoResp when it sent none)
    prev,       \* the preceding page, when last is the next page of the same listing
    derived,    \* history: photo ids whose thumbnail derivation returned True
    deleted     \* history: id -> paths of the row, for the photos DELETE /photos/{id} answered 200 for

vars == <<users, photos, files, userSeq, photoSeq, now, pc, req, last, prev, derived, deleted>>

(***************************************************************************)
(* Bounds of the model                                                     *)
(***************************************************************************)
MaxUsers == 2
MaxPhotos == 2
MaxClock == 1

Workers == {"w1", "w2"}

\* Optional values: None is Python's None / SQL NULL.
None == <<>>
Some(x) == <<x>>

\* Texts an unexpected exception (storage, query, commit) may carry.
ExcTexts == {"connection reset", "disk full"}

(***************************************************************************)
(* Configuration (routes.py)                                               *)
(***************************************************************************)
ALLOWED_EXTENSIONS == {".jpg", ".jpeg", ".png", ".webp", ".mp4", ".mov", ".avi", ".webm"}
MAX_FILE_SIZE == 10 * 1024 * 1024
MAX_VIDEO_SIZE == 100 * 1024 * 1024

\* str.lower() on the extensions that occur
Lower(ext) ==
    CASE ext = ".MP4" -> ".mp4"
      [] ext = ".JPG" -> ".jpg"
      [] OTHER -> ext

\* os.path.splitext(filename)[1].lower(); a filename is [stem, ext]
FileExt(filename) == Lower(filename.ext)

is_video_file(filename) == FileExt(filename) \in {".mp4", ".mov", ".avi", ".webm"}

\* os.path.join(STORAGE_DIR, f"{photo_id}{file_ext}")
StoragePath(photo_id, file_ext) == <<"photos", photo_id, file_ext>>
\* os.path.join(THUMBNAIL_DIR, f"{photo_id}_thumb.jpg")
ThumbnailPath(photo_id) == <<"thumbnails", photo_id, "_thumb.jpg">>

(***************************************************************************)
(* File system                                                             *)
(***************************************************************************)
Exists(fs, path) == path \in DOMAIN fs

WriteFile(fs, path, contents) ==
    [q \in DOMAIN fs \cup {path} |-> IF q = path THEN contents ELSE fs[q]]

\* if os.path.exists(path): os.remove(path)
RemoveIfExists(fs, path) == [q \in DOMAIN fs \ {path} |-> fs[q]]

(***************************************************************************)
(* Tables                                                                  *)
(***************************************************************************)
Insert(table, id, row) ==
    [k \in DOMAIN table \cup {id} |-> IF k = id THEN row ELSE table[k]]

DeleteRows(table, ids) == [k \in DOMAIN table \ ids |-> table[k]]

\* UNIQUE(username), UNIQUE(email): would inserting / updating row `id` to these
\* values violate a unique index?  NULL emails never collide.
UsernameTaken(tbl, username, except) ==
    \E k \in DOMAIN tbl \ except : tbl[k].username = username

EmailTaken(tbl, email, except) ==
    /\ email # None
    /\ \E k \in DOMAIN tbl \ except : tbl[k].email = email

PhotosOf(tbl, user_id) == {k \in DOMAIN tbl : tbl[k].user_id = user_id}

(***************************************************************************)
(* Responses                                                               *)
(***************************************************************************)
NoReq == [op |-> "none"]
NoResp == [op |-> "none", status |-> 0]

\* HTTPException(status_code, detail): detail is a fixed text followed by an
\* interpolated value (None when the text is fixed).  exc is what the server
\* logged: the class of the exception that led to the response.
Error(r, status, msg, arg, exc) ==
    [op |-> r.op, req |-> r, status |-> status,
     detail |-> [msg |-> msg, arg |-> arg], exc |-> exc, body |-> None]

Ok(r, status, body) ==
    [op |-> r.op, req |-> r, status |-> status,
     detail |-> [msg |-> "", arg |-> None], exc |-> "none", body |-> body]

\* User.to_dict(include_stats=True)
UserToDict(id, u) ==
    [id |-> id, username |-> u.username, display_name |-> u.display_name,
     email |-> u.email, created_at |-> u.created_at,
     photo_count |-> u.photo_count, last_upload_at |-> u.last_upload_at]

\* to_dict() building the thumbnail URL whether or not the row names a thumbnail
ThumbnailUrlUnconditional(id, thumbnail_path) ==
    Some(<<"/api/v1/photos/", id, "/thumbnail">>)

\* f"/api/v1/photos/{id}/thumbnail" if thumbnail_path else None
ThumbnailUrl(id, thumbnail_path) ==
    IF thumbnail_path # None THEN Some(<<"/api/v1/photos/", id, "/thumbnail">>) ELSE None

\* Photo.to_dict()
PhotoToDict(id, ph) ==
    [id |-> id, user_id |-> ph.user_id, filename |-> ph.filename,
     location |-> [latitude |-> ph.latitude, longitude |-> ph.longitude],
     upload_date |-> ph.upload_date, file_size |-> ph.file_size,
     mime_type |-> ph.mime_type, metadata |-> ph.photo_metadata,
     thumbnail_url |-> ThumbnailUrl(id, ph.thumbnail_path),
     image_url |-> <<"/api/v1/photos/", id, "/image">>]

\* The handler of worker p returns response r.
Respond(p, r) ==
    /\ last' = r
    /\ pc' = [pc EXCEPT ![p] = "idle"]
    /\ req' = [req EXCEPT ![p] = NoReq]

\* The handler of worker p moves on to step `at` with locals r.
Goto(p, at, r) ==
    /\ pc' = [pc EXCEPT ![p] = at]
    /\ req' = [req EXCEPT ![p] = r]
    /\ last' = NoResp

(***************************************************************************)
(* Inputs                                                                  *)
(***************************************************************************)
Usernames == {"alice", "bob"}
Emails == {None, Some("a@x.org")}

UserIds == 1..MaxUsers
PhotoIds == 1..MaxPhotos

\* UserCreate bodies
UserCreates ==
    [username : Usernames, display_name : {"A"}, email : Emails]

\* The UserCreate body of the photo scenarios
AliceCreate == [username |-> "alice", display_name |-> "A", email |-> None]

\* UserUpdate bodies (all fields optional)
UserUpdates ==
    [display_name : {None, Some("B")}, email : Emails]

(***************************************************************************)
(* user_routes.py: create_user                                             *)
(***************************************************************************)
CreatesInFlight == Cardinality({p \in Workers : pc[p] = "create_user_commit"})

\* lines 126-135: the two existence queries
CreateUserCheck(p, user_data) ==
    LET r == [op |-> "create_user", user_data |-> user_data] IN
    /\ pc[p] = "idle"
    /\ userSeq + CreatesInFlight < MaxUsers
    /\ IF UsernameTaken(users, user_data.username, {})
       THEN Respond(p, Error(r, 400, "Username already exists: ",
                             Some(user_data.username), "HTTPException"))
       ELSE IF EmailTaken(users, user_data.email, {})
       THEN Respond(p, Error(r, 400, "Email already exists: ",
                             user_data.email, "HTTPException"))
       ELSE Goto(p, "create_user_commit", r)
    /\ UNCHANGED <<users, photos, files, userSeq, photoSeq, now, prev, derived, deleted>>

\* User(...) with the column defaults of models/user.py
NewUser(user_data, t) ==
    [username |-> user_data.username, display_name |-> user_data.display_name,
     email |-> user_data.email, photo_count |-> 0, last_upload_at |-> None,
     created_at |-> t]

\* lines 144-157: db.add, db.commit, db.refresh, response; except -> rollback, 500
CreateUserCommit(p) ==
    LET r == req[p]
        d == r.user_data
        id == userSeq + 1
    IN
    /\ pc[p] = "create_user_commit"
    /\ \/ \E e \in ExcTexts :
            /\ Respond(p, Error(r, 500, "Failed to create user: ", Some(e), "Exception"))
            /\ UNCHANGED <<users, userSeq>>
       \/ /\ UsernameTaken(users, d.username, {}) \/ EmailTaken(users, d.email, {})
          /\ Respond(p, Error(r, 500, "Failed to create user: ",
                               Some("duplicate key value violates unique constraint"),
                               "IntegrityError"))
          /\ UNCHANGED <<users, userSeq>>
       \/ \* the commit succeeds; db.refresh raises, or the response is built
          /\ ~UsernameTaken(users, d.username, {})
          /\ ~EmailTaken(users, d.email, {})
          /\ users' = Insert(users, id, NewUser(d, now))
          /\ userSeq' = id
          /\ \/ \E e \in ExcTexts :
                  Respond(p, Error(r, 500, "Failed to create user: ", Some(e), "Exception"))
             \/ Respond(p, Ok(r, 201, UserToDict(id, users'[id])))
    /\ UNCHANGED <<photos, files, photoSeq, now, prev, derived, deleted>>

(***************************************************************************)
(* user_routes.py: get_user                                                *)
(***************************************************************************)
GetUser(user_id) ==
    LET r == [op |-> "get_user", user_id |-> user_id] IN
    /\ last' = IF user_id \in DOMAIN users
                THEN Ok(r, 200, UserToDict(user_id, users[user_id]))
                ELSE Error(r, 404, "User not found: ", Some(user_id), "HTTPException")
    /\ UNCHANGED <<users, photos, files, userSeq, photoSeq, now, pc, req, prev, derived, deleted>>

(***************************************************************************)
(* user_routes.py: update_user                                             *)
(***************************************************************************)
\* lines 174-191: load the user, assign display_name on the session object,
\* query for another holder of the email, assign email
UpdateUserLoad(p, user_id, user_data) ==
    LET r == [op |-> "update_user", user_id |-> user_id, user_data |-> user_data] IN
    /\ pc[p] = "idle"
    /\ IF user_id \notin DOMAIN users
       THEN Respond(p, Error(r, 404, "User not found: ", Some(user_id), "HTTPException"))
       ELSE IF EmailTaken(users, user_data.email, {user_id})
       THEN Respond(p, Error(r, 400, "Email already exists: ",
                             user_data.email, "HTTPException"))
       ELSE Goto(p, "update_user_commit",
                 r @@ [loaded |-> users[user_id]])
    /\ UNCHANGED <<users, photos, files, userSeq, photoSeq, now, prev, derived, deleted>>

\* The row the session flushes: only the attributes whose value differs from the
\* loaded one are written (UPDATE ... SET of the dirty columns).
FlushUser(row, loaded, user_data) ==
    [row EXCEPT
        !.display_name = IF user_data.display_name # None
                            /\ user_data.display_name[1] # loaded.display_name
                         THEN user_data.display_name[1] ELSE @,
        !.email = IF user_data.email # None /\ user_data.email # loaded.email
                  THEN user_data.email ELSE @]

\* update_user on a users table without the unique index on email
UpdateUserCommitUnchecked(p) ==
    LET r == req[p]
        id == r.user_id
    IN
    /\ pc[p] = "update_user_commit"
    /\ \/ \E e \in ExcTexts :
            /\ Respond(p, Error(r, 500, "Failed to update user: ", Some(e), "Exception"))
            /\ UNCHANGED users
       \/ /\ id \notin DOMAIN users
          /\ Respond(p, Error(r, 500, "Failed to update user: ",
                               Some("UPDATE statement expected to update 1 row(s); 0 were matched"),
                               "StaleDataError"))
          /\ UNCHANGED users
       \/ /\ id \in DOMAIN users
          /\ users' = [users EXCEPT ![id] = FlushUser(@, r.loaded, r.user_data)]
          /\ \/ \E e \in ExcTexts :
                  Respond(p, Error(r, 500, "Failed to update user: ", Some(e), "Exception"))
             \/ Respond(p, Ok(r, 200, UserToDict(id, users'[id])))
    /\ UNCHANGED <<photos, files, userSeq, photoSeq, now, prev, derived, deleted>>

\* lines 193-205: db.commit, db.refresh, response; except -> rollback, 500
UpdateUserCommit(p) ==
    LET r == req[p]
        id == r.user_id
        d == r.user_data
        emailDirty == d.email # None /\ d.email # r.loaded.email
    IN
    /\ pc[p] = "update_user_commit"
    /\ \/ \E e \in ExcTexts :
            /\ Respond(p, Error(r, 500, "Failed to update user: ", Some(e), "Exception"))
            /\ UNCHANGED users
       \/ /\ id \notin DOMAIN users
          /\ Respond(p, Error(r, 500, "Failed to update user: ",
                               Some("UPDATE statement expected to update 1 row(s); 0 were matched"),
                               "StaleDataError"))
          /\ UNCHANGED users
       \/ /\ id \in DOMAIN users
          /\ emailDirty /\ EmailTaken(users, d.email, {id})
          /\ Respond(p, Error(r, 500, "Failed to update user: ",
                               Some("duplicate key value violates unique constraint"),
                               "IntegrityError"))
          /\ UNCHANGED users
       \/ \* the commit succeeds; db.refresh raises, or the response is built
          /\ id \in DOMAIN users
          /\ ~(emailDirty /\ EmailTaken(users, d.email, {id}))
          /\ users' = [users EXCEPT ![id] = FlushUser(@, r.loaded, d)]
          /\ \/ \E e \in ExcTexts :
                  Respond(p, Error(r, 500, "Failed to update user: ", Some(e), "Exception"))
             \/ Respond(p, Ok(r, 200, UserToDict(id, users'[id])))
    /\ UNCHANGED <<photos, files, userSeq, photoSeq, now, prev, derived, deleted>>

(***************************************************************************)
(* user_routes.py: delete_user                                             *)
(***************************************************************************)
\* lines 217-223
DeleteUserLoad(p, user_id) ==
    LET r == [op |-> "delete_user", user_id |-> user_id] IN
    /\ pc[p] = "idle"
    /\ IF user_id \notin DOMAIN users
       THEN Respond(p, Error(r, 404, "User not found: ", Some(user_id), "HTTPException"))
       ELSE Goto(p, "delete_user_commit", r @@ [photo_count |-> users[user_id].photo_count,
                                               username |-> users[user_id].username])
    /\ UNCHANGED <<users, photos, files, userSeq, photoSeq, now, prev, derived, deleted>>

\* The flush of db.delete(user).  Photo.user = relationship("User",
\* backref="photos") gives User.photos no delete cascade and no passive_deletes,
\* so the unit of work loads the user's photos and de-associates each one
\* (UPDATE photos SET user_id = NULL) before it deletes the user.  The rows it
\* would write:
NullifiedPhotos(user_id) == PhotosOf(photos, user_id)

\* DELETE FROM users WHERE id = ...; the foreign key is ON DELETE CASCADE
CascadeDelete(tbl, user_id) == DeleteRows(tbl, PhotosOf(tbl, user_id))

\* lines 225-241: db.delete, db.commit, response; except -> rollback, 500
DeleteUserCommit(p) ==
    LET r == req[p]
        id == r.user_id
    IN
    /\ pc[p] = "delete_user_commit"
    /\ \/ \E e \in ExcTexts :
            /\ Respond(p, Error(r, 500, "Failed to delete user: ", Some(e), "Exception"))
            /\ UNCHANGED <<users, photos>>
       \/ \* photos.user_id is nullable=False: the de-associating UPDATE fails
          /\ id \in DOMAIN users
          /\ NullifiedPhotos(id) # {}
          /\ Respond(p, Error(r, 500, "Failed to delete user: ",
                               Some("null value in column user_id violates not-null constraint"),
                               "IntegrityError"))
          /\ UNCHANGED <<users, photos>>
       \/ /\ id \in DOMAIN users => NullifiedPhotos(id) = {}
          /\ users' = DeleteRows(users, {id})
          /\ photos' = CascadeDelete(photos, id)
          /\ Respond(p, Ok(r, 200, [success |-> TRUE, username |-> r.username,
                                    photos_deleted |-> r.photo_count]))
    /\ UNCHANGED <<files, userSeq, photoSeq, now, prev, derived, deleted>>

(***************************************************************************)
(* routes.py: upload_photo                                                 *)
(***************************************************************************)
\* Uploaded files: filename, content type and bytes (what they are, how many).
JpegFile == [filename |-> [stem |-> "a", ext |-> ".jpg"], content_type |-> None,
             contents |-> [data |-> "jpeg-bytes", size |-> 1]]
Mp4File == [filename |-> [stem |-> "b", ext |-> ".MP4"], content_type |-> Some("video/mp4"),
            contents |-> [data |-> "mp4-bytes", size |-> MAX_FILE_SIZE + 1]]
ExeFile == [filename |-> [stem |-> "c", ext |-> ".exe"], content_type |-> None,
            contents |-> [data |-> "exe-bytes", size |-> 1]]
BigPngFile == [filename |-> [stem |-> "d", ext |-> ".png"], content_type |-> Some("image/png"),
               contents |-> [data |-> "png-bytes", size |-> MAX_FILE_SIZE + 1]]
BigMovFile == [filename |-> [stem |-> "e", ext |-> ".mov"], content_type |-> None,
               contents |-> [data |-> "mov-bytes", size |-> MAX_VIDEO_SIZE + 1]]
\* Files of exactly the ceiling of their type, and a disallowed file above both ceilings
ExactPngFile == [filename |-> [stem |-> "f", ext |-> ".png"], content_type |-> Some("image/png"),
                 contents |-> [data |-> "png-bytes", size |-> MAX_FILE_SIZE]]
ExactAviFile == [filename |-> [stem |-> "g", ext |-> ".avi"], content_type |-> None,
                 contents |-> [data |-> "avi-bytes", size |-> MAX_VIDEO_SIZE]]
BigExeFile == [filename |-> [stem |-> "h", ext |-> ".exe"], content_type |-> None,
               contents |-> [data |-> "exe-bytes", size |-> MAX_VIDEO_SIZE + 1]]

\* Upload forms (file, latitude, longitude): the valid ones, one per rule
\* broken, and two that break several rules at once.
UploadForms ==
    { <<JpegFile, 10, 20>>, <<Mp4File, -90, 180>>,
      <<ExeFile, 10, 20>>, <<JpegFile, 91, 20>>, <<JpegFile, 10, -181>>,
      <<BigPngFile, 10, 20>>, <<BigMovFile, 10, 20>>,
      <<ExeFile, 91, 181>>, <<JpegFile, -91, 181>> }

UploadsInFlight == Cardinality({p \in Workers : pc[p] = "upload_read"})

\* upload_photo looking at the extension before it looks for the user
UploadValidateExtensionFirst(p, file, user_id, latitude, longitude) ==
    LET r == [op |-> "upload_photo", file |-> file, user_id |-> user_id,
              latitude |-> latitude, longitude |-> longitude]
    IN
    /\ pc[p] = "idle"
    /\ photoSeq + UploadsInFlight < MaxPhotos
    /\ IF FileExt(file.filename) \notin ALLOWED_EXTENSIONS
       THEN Respond(p, Error(r, 400, "Invalid file type. Allowed: ",
                             Some(ALLOWED_EXTENSIONS), "HTTPException"))
       ELSE IF user_id \notin DOMAIN users
       THEN Respond(p, Error(r, 404, "User not found: ", Some(user_id), "HTTPException"))
       ELSE IF ~(-90 <= latitude /\ latitude <= 90)
       THEN Respond(p, Error(r, 400, "Invalid latitude: ", Some(latitude), "HTTPException"))
       ELSE IF ~(-180 <= longitude /\ longitude <= 180)
       THEN Respond(p, Error(r, 400, "Invalid longitude: ", Some(longitude), "HTTPException"))
       ELSE Goto(p, "upload_read", r)
    /\ UNCHANGED <<users, photos, files, userSeq, photoSeq, now, prev, derived, deleted>>

\* lines 133-149: user existence, extension, latitude, longitude
UploadValidate(p, file, user_id, latitude, longitude) ==
    LET r == [op |-> "upload_photo", file |-> file, user_id |-> user_id,
              latitude |-> latitude, longitude |-> longitude]
    IN
    /\ pc[p] = "idle"
    /\ photoSeq + UploadsInFlight < MaxPhotos
    /\ IF user_id \notin DOMAIN users
       THEN Respond(p, Error(r, 404, "User not found: ", Some(user_id), "HTTPException"))
       ELSE IF FileExt(file.filename) \notin ALLOWED_EXTENSIONS
       THEN Respond(p, Error(r, 400, "Invalid file type. Allowed: ",
                             Some(ALLOWED_EXTENSIONS), "HTTPException"))
       ELSE IF ~(-90 <= latitude /\ latitude <= 90)
       THEN Respond(p, Error(r, 400, "Invalid latitude: ", Some(latitude), "HTTPException"))
       ELSE IF ~(-180 <= longitude /\ longitude <= 180)
       THEN Respond(p, Error(r, 400, "Invalid longitude: ", Some(longitude), "HTTPException"))
       ELSE Goto(p, "upload_read", r)
    /\ UNCHANGED <<users, photos, files, userSeq, photoSeq, now, prev, derived, deleted>>

\* lines 216-220: remove the original and the thumbnail if they exist
Cleanup(fs, storage_path, thumbnail_path) ==
    RemoveIfExists(RemoveIfExists(fs, storage_path), thumbnail_path)

\* What create_thumbnail / create_video_thumbnail can do: write the thumbnail
\* and return True; fail and return False; and, for a video, return False
\* (timeout, non-zero exit) although ffmpeg has written its output file.
ThumbOutcomes(is_video) ==
    IF is_video THEN {"created", "failed", "failed_with_file"} ELSE {"created", "failed"}

\* One ceiling for every type
MaxSizeImageOnly(filename) == MAX_FILE_SIZE

\* lines 159-172: the size ceiling of the file's type
MaxSize(filename) == IF is_video_file(filename) THEN MAX_VIDEO_SIZE ELSE MAX_FILE_SIZE

\* lines 153-157: the id and the two paths of this upload
UploadIds(r) ==
    [photo_id |-> photoSeq + 1,
     storage_path |-> StoragePath(photoSeq + 1, FileExt(r.file.filename)),
     thumbnail_path |-> ThumbnailPath(photoSeq + 1)]

\* upload_photo saving the file before it compares the size with the ceiling
UploadTooLargeAfterSave(p) ==
    LET r == req[p]
        is_video == is_video_file(r.file.filename)
    IN
    /\ r.file.contents.size > MaxSize(r.file.filename)
    /\ files' = WriteFile(files, UploadIds(r).storage_path, r.file.contents)
    /\ Respond(p, Error(r, 400, "File too large. Maximum size for ",
                         Some(<<IF is_video THEN "videos" ELSE "images",
                                MaxSize(r.file.filename) \div (1024 * 1024)>>),
                         "HTTPException"))
    /\ UNCHANGED <<photoSeq, derived>>

\* lines 168-172: the file is larger than its ceiling
UploadTooLarge(p) ==
    LET r == req[p]
        is_video == is_video_file(r.file.filename)
    IN
    /\ r.file.contents.size > MaxSize(r.file.filename)
    /\ Respond(p, Error(r, 400, "File too large. Maximum size for ",
                         Some(<<IF is_video THEN "videos" ELSE "images",
                                MaxSize(r.file.filename) \div (1024 * 1024)>>),
                         "HTTPException"))
    /\ UNCHANGED <<files, photoSeq, derived>>

\* lines 175-176 raise (open or write): the file may have been created;
\* lines 214-221 remove what exists and answer 500
UploadWriteFails(p) ==
    LET r == req[p]
        u == UploadIds(r)
    IN
    /\ r.file.contents.size <= MaxSize(r.file.filename)
    /\ \E created \in BOOLEAN :
         files' = Cleanup(IF created
                          THEN WriteFile(files, u.storage_path,
                                         [r.file.contents EXCEPT !.size = 0])
                          ELSE files,
                          u.storage_path, u.thumbnail_path)
    /\ photoSeq' = u.photo_id
    /\ Respond(p, Error(r @@ [photo_id |-> u.photo_id], 500,
                         "Failed to upload photo", None, "Exception"))
    /\ UNCHANGED derived

\* lines 175-182: the original is written, the thumbnail derived or not
UploadStores(p) ==
    LET r == req[p]
        u == UploadIds(r)
        saved == WriteFile(files, u.storage_path, r.file.contents)
    IN
    /\ r.file.contents.size <= MaxSize(r.file.filename)
    /\ \E o \in ThumbOutcomes(is_video_file(r.file.filename)) :
         /\ files' = IF o = "failed" THEN saved
                      ELSE WriteFile(saved, u.thumbnail_path,
                                     [data |-> "thumbnail", size |-> 1])
         /\ derived' = IF o = "created" THEN derived \cup {u.photo_id} ELSE derived
         /\ Goto(p, "upload_commit",
                 r @@ [photo_id |-> u.photo_id, thumbnail_created |-> (o = "created")])
    /\ photoSeq' = u.photo_id

\* lines 153-182: read, size check, write the original, derive the thumbnail
UploadWrite(p) ==
    /\ pc[p] = "upload_read"
    /\ \/ UploadTooLarge(p)
       \/ UploadWriteFails(p)
       \/ UploadStores(p)
    /\ UNCHANGED <<users, photos, userSeq, now, prev, deleted>>

\* Photo(...) with the two coordinates passed to each other's column
NewPhotoSwapped(r, t) ==
    [user_id |-> r.user_id, filename |-> r.file.filename,
     storage_path |-> StoragePath(r.photo_id, FileExt(r.file.filename)),
     thumbnail_path |-> IF r.thumbnail_created THEN Some(ThumbnailPath(r.photo_id)) ELSE None,
     latitude |-> r.longitude, longitude |-> r.latitude,
     file_size |-> r.file.contents.size,
     mime_type |-> IF r.file.content_type # None THEN r.file.content_type[1] ELSE "image/jpeg",
     photo_metadata |-> None,
     upload_date |-> t, created_at |-> t, updated_at |-> t]

\* lines 185-195: Photo(...), with the column defaults of models/photo.py
NewPhoto(r, t) ==
    [user_id |-> r.user_id, filename |-> r.file.filename,
     storage_path |-> StoragePath(r.photo_id, FileExt(r.file.filename)),
     thumbnail_path |-> IF r.thumbnail_created THEN Some(ThumbnailPath(r.photo_id)) ELSE None,
     latitude |-> r.latitude, longitude |-> r.longitude,
     file_size |-> r.file.contents.size,
     mime_type |-> IF r.file.content_type # None THEN r.file.content_type[1] ELSE "image/jpeg",
     photo_metadata |-> None,
     upload_date |-> t, created_at |-> t, updated_at |-> t]

\* lines 212-221: the except branch of upload_photo
UploadFailed(p, r) ==
    /\ files' = Cleanup(files, StoragePath(r.photo_id, FileExt(r.file.filename)),
                        ThumbnailPath(r.photo_id))
    /\ Respond(p, Error(r, 500, "Failed to upload photo", None, "Exception"))

\* upload_photo on a photos table without the foreign key to users
UploadCommitUnchecked(p) ==
    LET r == req[p] IN
    /\ pc[p] = "upload_commit"
    /\ \/ /\ UploadFailed(p, r)
          /\ UNCHANGED photos
       \/ /\ photos' = Insert(photos, r.photo_id, NewPhoto(r, now))
          /\ Goto(p, "upload_refresh", r)
          /\ UNCHANGED files
    /\ UNCHANGED <<users, userSeq, photoSeq, now, prev, derived, deleted>>

\* lines 197-198: db.add, db.commit
UploadCommit(p) ==
    LET r == req[p] IN
    /\ pc[p] = "upload_commit"
    /\ \/ \* the commit raises
          /\ UploadFailed(p, r)
          /\ UNCHANGED photos
       \/ \* the user was deleted meanwhile: foreign key violation
          /\ r.user_id \notin DOMAIN users
          /\ UploadFailed(p, r)
          /\ UNCHANGED photos
       \/ /\ r.user_id \in DOMAIN users
          /\ photos' = Insert(photos, r.photo_id, NewPhoto(r, now))
          /\ Goto(p, "upload_refresh", r)
          /\ UNCHANGED files
    /\ UNCHANGED <<users, userSeq, photoSeq, now, prev, derived, deleted>>

\* lines 203-210: PhotoUploadResponse
PhotoUploadResponse(r, photo) ==
    [id |-> r.photo_id, filename |-> photo.filename,
     location |-> [latitude |-> r.latitude, longitude |-> r.longitude],
     upload_date |-> photo.upload_date,
     thumbnail_url |-> IF r.thumbnail_created
                       THEN Some(<<"/api/v1/photos/", r.photo_id, "/thumbnail">>) ELSE None,
     image_url |-> <<"/api/v1/photos/", r.photo_id, "/image">>]

\* lines 199-210: db.refresh, response
UploadRefresh(p) ==
    LET r == req[p] IN
    /\ pc[p] = "upload_refresh"
    /\ \/ \* the refresh raises
          UploadFailed(p, r)
       \/ \* the row was deleted meanwhile: the refresh finds no row
          /\ r.photo_id \notin DOMAIN photos
          /\ UploadFailed(p, r)
       \/ /\ r.photo_id \in DOMAIN photos
          /\ Respond(p, Ok(r, 200, PhotoUploadResponse(r, photos[r.photo_id])))
          /\ UNCHANGED files
    /\ UNCHANGED <<users, photos, userSeq, photoSeq, now, prev, derived, deleted>>

(***************************************************************************)
(* routes.py: get_photo, get_photo_image, get_photo_thumbnail              *)
(***************************************************************************)
GetPhoto(photo_id) ==
    LET r == [op |-> "get_photo", photo_id |-> photo_id] IN
    /\ last' = IF photo_id \in DOMAIN photos
                THEN Ok(r, 200, PhotoToDict(photo_id, photos[photo_id]))
                ELSE Error(r, 404, "Photo not found", None, "HTTPException")
    /\ UNCHANGED <<users, photos, files, userSeq, photoSeq, now, pc, req, prev, derived, deleted>>

\* FileResponse(path, media_type)
FileResponse(path, media_type) ==
    [path |-> path, media_type |-> media_type, content |-> files[path]]

\* get_photo_image without the os.path.exists test: FileResponse raises for a missing file
GetPhotoImageUnchecked(photo_id) ==
    LET r == [op |-> "get_photo_image", photo_id |-> photo_id] IN
    /\ last' = IF photo_id \notin DOMAIN photos
                THEN Error(r, 404, "Photo not found", None, "HTTPException")
                ELSE IF ~Exists(files, photos[photo_id].storage_path)
                THEN Error(r, 500, "Internal Server Error", None, "RuntimeError")
                ELSE Ok(r, 200, FileResponse(photos[photo_id].storage_path,
                                             photos[photo_id].mime_type))
    /\ UNCHANGED <<users, photos, files, userSeq, photoSeq, now, pc, req, prev, derived, deleted>>

GetPhotoImage(photo_id) ==
    LET r == [op |-> "get_photo_image", photo_id |-> photo_id] IN
    /\ last' = IF photo_id \notin DOMAIN photos
                THEN Error(r, 404, "Photo not found", None, "HTTPException")
                ELSE IF ~Exists(files, photos[photo_id].storage_path)
                THEN Error(r, 404, "Image file not found", None, "HTTPException")
                ELSE Ok(r, 200, FileResponse(photos[photo_id].storage_path,
                                             photos[photo_id].mime_type))
    /\ UNCHANGED <<users, photos, files, userSeq, photoSeq, now, pc, req, prev, derived, deleted>>

GetPhotoThumbnail(photo_id) ==
    LET r == [op |-> "get_photo_thumbnail", photo_id |-> photo_id] IN
    /\ last' = IF photo_id \notin DOMAIN photos
                THEN Error(r, 404, "Photo not found", None, "HTTPException")
                ELSE IF photos[photo_id].thumbnail_path = None
                        \/ ~Exists(files, photos[photo_id].thumbnail_path[1])
                THEN Error(r, 404, "Thumbnail not found", None, "HTTPException")
                ELSE Ok(r, 200, FileResponse(photos[photo_id].thumbnail_path[1], "image/jpeg"))
    /\ UNCHANGED <<users, photos, files, userSeq, photoSeq, now, pc, req, prev, derived, deleted>>

(***************************************************************************)
(* routes.py: delete_photo                                                 *)
(***************************************************************************)
\* lines 328-331
DeletePhotoLoad(p, photo_id) ==
    LET r == [op |-> "delete_photo", photo_id |-> photo_id] IN
    /\ pc[p] = "idle"
    /\ IF photo_id \notin DOMAIN photos
       THEN Respond(p, Error(r, 404, "Photo not found", None, "HTTPException"))
       ELSE Goto(p, "delete_photo_commit", r @@ [photo |-> photos[photo_id]])
    /\ UNCHANGED <<users, photos, files, userSeq, photoSeq, now, prev, derived, deleted>>

\* delete_photo removing the original only
RemovePhotoFilesOriginalOnly(fs, photo) ==
    RemoveIfExists(fs, photo.storage_path)

\* lines 335-338: remove the files the loaded row names
RemovePhotoFiles(fs, photo) ==
    LET fs1 == RemoveIfExists(fs, photo.storage_path) IN
    IF photo.thumbnail_path # None THEN RemoveIfExists(fs1, photo.thumbnail_path[1]) ELSE fs1

\* delete_photo deleting the row first and the files only after the commit
DeletePhotoCommitRowFirst(p) ==
    LET r == req[p] IN
    /\ pc[p] = "delete_photo_commit"
    /\ \/ /\ Respond(p, Error(r, 500, "Failed to delete photo", None, "Exception"))
          /\ UNCHANGED <<photos, files, deleted>>
       \/ /\ photos' = DeleteRows(photos, {r.photo_id})
          /\ files' = RemovePhotoFiles(files, r.photo)
          /\ deleted' = Insert(deleted, r.photo_id,
                                [storage_path |-> r.photo.storage_path,
                                 thumbnail_path |-> r.photo.thumbnail_path])
          /\ Respond(p, Ok(r, 200, [success |-> TRUE, message |-> "Photo deleted successfully"]))
    /\ UNCHANGED <<users, userSeq, photoSeq, now, prev, derived>>

\* lines 333-354: remove the files, db.delete, db.commit; except -> rollback, 500
DeletePhotoCommit(p) ==
    LET r == req[p] IN
    /\ pc[p] = "delete_photo_commit"
    /\ \/ \* os.remove raises for the original
          /\ Exists(files, r.photo.storage_path)
          /\ Respond(p, Error(r, 500, "Failed to delete photo", None, "OSError"))
          /\ UNCHANGED <<files, photos, deleted>>
       \/ \* os.remove raises for the thumbnail
          /\ r.photo.thumbnail_path # None
          /\ Exists(files, r.photo.thumbnail_path[1])
          /\ files' = RemoveIfExists(files, r.photo.storage_path)
          /\ Respond(p, Error(r, 500, "Failed to delete photo", None, "OSError"))
          /\ UNCHANGED <<photos, deleted>>
       \/ \* the commit raises
          /\ files' = RemovePhotoFiles(files, r.photo)
          /\ Respond(p, Error(r, 500, "Failed to delete photo", None, "Exception"))
          /\ UNCHANGED <<photos, deleted>>
       \/ /\ files' = RemovePhotoFiles(files, r.photo)
          /\ photos' = DeleteRows(photos, {r.photo_id})
          /\ deleted' = Insert(deleted, r.photo_id,
                                [storage_path |-> r.photo.storage_path,
                                 thumbnail_path |-> r.photo.thumbnail_path])
          /\ Respond(p, Ok(r, 200, [success |-> TRUE, message |-> "Photo deleted successfully"]))
    /\ UNCHANGED <<users, userSeq, photoSeq, now, prev, derived>>

(***************************************************************************)
(* routes.py: update_photo_location                                        *)
(***************************************************************************)
\* (latitude, longitude) pairs of a PhotoLocationUpdate body
LocationUpdates == { <<10, 20>>, <<-90, 180>>, <<-91, 20>>, <<10, -181>> }

\* schemas.py PhotoLocationUpdate (ge/le and the validators), then lines 303-306
UpdateLocationLoad(p, photo_id, latitude, longitude) ==
    LET r == [op |-> "update_photo_location", photo_id |-> photo_id,
              latitude |-> latitude, longitude |-> longitude]
    IN
    /\ pc[p] = "idle"
    /\ IF ~(-90 <= latitude /\ latitude <= 90 /\ -180 <= longitude /\ longitude <= 180)
       THEN Respond(p, Error(r, 422, "validation error", None, "RequestValidationError"))
       ELSE IF photo_id \notin DOMAIN photos
       THEN Respond(p, Error(r, 404, "Photo not found", None, "HTTPException"))
       ELSE Goto(p, "update_location_commit", r @@ [photo |-> photos[photo_id]])
    /\ UNCHANGED <<users, photos, files, userSeq, photoSeq, now, prev, derived, deleted>>

\* An UPDATE that also stamps upload_date
FlushLocationStampsUpload(row, loaded, latitude, longitude, t) ==
    IF latitude = loaded.latitude /\ longitude = loaded.longitude
    THEN row
    ELSE [row EXCEPT !.latitude = IF latitude # loaded.latitude THEN latitude ELSE @,
                     !.longitude = IF longitude # loaded.longitude THEN longitude ELSE @,
                     !.upload_date = t,
                     !.updated_at = t]

\* The row the session flushes: the dirty columns, and updated_at (onupdate)
\* when there is one.
FlushLocation(row, loaded, latitude, longitude, t) ==
    IF latitude = loaded.latitude /\ longitude = loaded.longitude
    THEN row
    ELSE [row EXCEPT !.latitude = IF latitude # loaded.latitude THEN latitude ELSE @,
                     !.longitude = IF longitude # loaded.longitude THEN longitude ELSE @,
                     !.updated_at = t]

\* lines 308-322: assign, db.commit, db.refresh, response; except -> rollback, 500
UpdateLocationCommit(p) ==
    LET r == req[p] IN
    /\ pc[p] = "update_location_commit"
    /\ \/ \* the commit raises
          /\ Respond(p, Error(r, 500, "Failed to update photo location", None, "Exception"))
          /\ UNCHANGED photos
       \/ \* the row was deleted meanwhile
          /\ r.photo_id \notin DOMAIN photos
          /\ Respond(p, Error(r, 500, "Failed to update photo location", None, "StaleDataError"))
          /\ UNCHANGED photos
       \/ \* the commit succeeds; the refresh raises or the response is returned
          /\ r.photo_id \in DOMAIN photos
          /\ photos' = [photos EXCEPT ![r.photo_id] =
                            FlushLocation(@, r.photo, r.latitude, r.longitude, now)]
          /\ \/ Respond(p, Error(r, 500, "Failed to update photo location", None, "Exception"))
             \/ Respond(p, Ok(r, 200, PhotoToDict(r.photo_id, photos'[r.photo_id])))
    /\ UNCHANGED <<users, files, userSeq, photoSeq, now, prev, derived, deleted>>

(***************************************************************************)
(* Query results: ORDER BY, OFFSET, LIMIT                                  *)
(***************************************************************************)
\* Column values are optional integers; NULL sorts as larger than any value
\* (PostgreSQL: NULLS LAST ascending, NULLS FIRST descending).
ColumnLE(a, b) == b = None \/ (a # None /\ a[1] <= b[1])

\* The collation of the usernames that occur
Collate(username) ==
    CASE username = "alice" -> 1
      [] username = "bob" -> 2
      [] OTHER -> 3

Orderings(S) ==
    {s \in [1..Cardinality(S) -> S] : \A i, j \in 1..Cardinality(S) : i # j => s[i] # s[j]}

\* order_by(asc(column)) whatever the order parameter says
InOrderAscending(s, col, order) ==
    \A i, j \in 1..Len(s) : i < j => ColumnLE(col[s[i]], col[s[j]])

\* asc(column) when order == "asc", desc(column) otherwise
InOrder(s, col, order) ==
    \A i, j \in 1..Len(s) :
        i < j => IF order = "asc" THEN ColumnLE(col[s[i]], col[s[j]])
                              ELSE ColumnLE(col[s[j]], col[s[i]])

\* The row sequences the database may return for ORDER BY column (col maps
\* each row id to its column value): rows with equal column values come in
\* any order, chosen anew by every query.
ResultSets(ids, col, order) == {s \in Orderings(ids) : InOrder(s, col, order)}

\* .offset(offset).limit(limit)
Page(s, limit, offset) ==
    IF offset >= Len(s) \/ limit = 0 THEN <<>>
    ELSE SubSeq(s, offset + 1, IF offset + limit < Len(s) THEN offset + limit ELSE Len(s))

\* Request r asks for the page after response a of the same listing
NextPage(a, r) ==
    /\ a.op = r.op
    /\ a.status = 200
    /\ a.req.params = r.params
    /\ a.req.limit = r.limit
    /\ r.offset = a.req.offset + a.req.limit

\* A client asks for a first page, or for the page after the one it got.
Paging(r) == last = NoResp \/ NextPage(last, r)

ListRespond(r) ==
    /\ last' = r
    /\ prev' = last
    /\ UNCHANGED <<users, photos, files, userSeq, photoSeq, now, pc, req, derived, deleted>>

(***************************************************************************)
(* user_routes.py: list_users                                              *)
(***************************************************************************)
\* ilike("%term%") on the terms and texts that occur
ILike(text, term) ==
    \/ term = "ali" /\ text = "alice"
    \/ term = "B" /\ text \in {"bob", "B"}

\* lines 45-50
SearchUsers(search) ==
    IF search = None THEN DOMAIN users
    ELSE {id \in DOMAIN users : \/ ILike(users[id].username, search[1])
                                \/ ILike(users[id].display_name, search[1])}

\* lines 53-58
UserSortColumn(sort, u) ==
    CASE sort = "created_at" -> Some(u.created_at)
      [] sort = "photo_count" -> Some(u.photo_count)
      [] sort = "last_upload" -> u.last_upload_at
      [] sort = "username" -> Some(Collate(u.username))
      [] OTHER -> u.last_upload_at

\* Query(50, ge=1, le=100), Query(0, ge=0)
ListUsersValid(limit, offset) == 1 <= limit /\ limit <= 100 /\ offset >= 0

ListUsers(sort, order, limit, offset, search) ==
    LET r == [op |-> "list_users", params |-> <<sort, order, search>>,
              limit |-> limit, offset |-> offset]
        found == SearchUsers(search)
    IN
    /\ Paging(r)
    /\ IF ~ListUsersValid(limit, offset)
       THEN ListRespond(Error(r, 422, "validation error", None, "RequestValidationError"))
       ELSE \/ \E e \in ExcTexts :
                ListRespond(Error(r, 500, "Failed to list users: ", Some(e), "Exception"))
            \/ \E s \in ResultSets(found, [id \in found |-> UserSortColumn(sort, users[id])], order) :
                LET page == Page(s, limit, offset) IN
                ListRespond(Ok(r, 200,
                    [items |-> [i \in 1..Len(page) |-> UserToDict(page[i], users[page[i]])],
                     total |-> Cardinality(found), limit |-> limit, offset |-> offset]))

(***************************************************************************)
(* user_routes.py: list_user_photos                                        *)
(***************************************************************************)
\* bounds strings that occur, as map(float, bounds.split(',')) reads them:
\* the four floats, or None for a ValueError
ParseBounds(bounds) ==
    CASE bounds = "20,0,30,10" -> Some([north |-> 20, south |-> 0, east |-> 30, west |-> 10])
      [] bounds = "10,10,20,20" -> Some([north |-> 10, south |-> 10, east |-> 20, west |-> 20])
      [] OTHER -> None

\* The filter with the limits of the box left out
InBoundsExclusive(ph, b) ==
    /\ ph.latitude > b.south /\ ph.latitude < b.north
    /\ ph.longitude > b.west /\ ph.longitude < b.east

\* lines 281-286
InBounds(ph, b) ==
    /\ ph.latitude >= b.south /\ ph.latitude <= b.north
    /\ ph.longitude >= b.west /\ ph.longitude <= b.east

\* lines 291-294
PhotoSortColumn(sort, ph) ==
    CASE sort = "upload_date" -> Some(ph.upload_date)
      [] sort = "file_size" -> Some(ph.file_size)
      [] OTHER -> Some(ph.upload_date)

\* Query(100, ge=1, le=500), Query(0, ge=0)
ListUserPhotosValid(limit, offset) == 1 <= limit /\ limit <= 500 /\ offset >= 0

ListUserPhotos(user_id, limit, offset, sort, order, bounds) ==
    LET r == [op |-> "list_user_photos", params |-> <<user_id, sort, order, bounds>>,
              limit |-> limit, offset |-> offset]
        owned == PhotosOf(photos, user_id)
        found == IF bounds = None THEN owned
                 ELSE IF ParseBounds(bounds[1]) = None THEN {}
                 ELSE {id \in owned : InBounds(photos[id], ParseBounds(bounds[1])[1])}
    IN
    /\ Paging(r)
    /\ IF ~ListUserPhotosValid(limit, offset)
       THEN ListRespond(Error(r, 422, "validation error", None, "RequestValidationError"))
       ELSE \/ \E e \in ExcTexts :
                ListRespond(Error(r, 500, "Failed to list photos: ", Some(e), "Exception"))
            \/ /\ user_id \notin DOMAIN users
               /\ ListRespond(Error(r, 404, "User not found: ", Some(user_id), "HTTPException"))
            \/ /\ user_id \in DOMAIN users
               /\ bounds # None /\ ParseBounds(bounds[1]) = None
               /\ ListRespond(Error(r, 400, "Invalid bounds format. Use: north,south,east,west",
                                    None, "HTTPException"))
            \/ /\ user_id \in DOMAIN users
               /\ bounds # None => ParseBounds(bounds[1]) # None
               /\ \E s \in ResultSets(found, [id \in found |-> PhotoSortColumn(sort, photos[id])], order) :
                    LET page == Page(s, limit, offset) IN
                    ListRespond(Ok(r, 200,
                        [items |-> [i \in 1..Len(page) |-> PhotoToDict(page[i], photos[page[i]])],
                         total |-> Cardinality(found), limit |-> limit, offset |-> offset]))

(***************************************************************************)
(* routes.py: get_photos                                                   *)
(***************************************************************************)
\* limit: int = 100, offset: int = 0 -- no bounds declared; the database
\* rejects a negative LIMIT or OFFSET, which the handler turns into a 500.
GetPhotos(limit, offset) ==
    LET r == [op |-> "get_photos", params |-> <<>>, limit |-> limit, offset |-> offset] IN
    /\ Paging(r)
    /\ \/ ListRespond(Error(r, 500, "Failed to fetch photos", None, "Exception"))
       \/ /\ limit < 0 \/ offset < 0
          /\ ListRespond(Error(r, 500, "Failed to fetch photos", None, "DataError"))
       \/ /\ limit >= 0 /\ offset >= 0
          /\ \E s \in ResultSets(DOMAIN photos, [id \in DOMAIN photos |-> Some(photos[id].upload_date)], "desc") :
               LET page == Page(s, limit, offset) IN
               ListRespond(Ok(r, 200,
                   [items |-> [i \in 1..Len(page) |-> PhotoToDict(page[i], photos[page[i]])],
                    total |-> Cardinality(DOMAIN photos), limit |-> limit, offset |-> offset]))

(***************************************************************************)
(* The clock                                                               *)
(***************************************************************************)
Tick ==
    /\ now < MaxClock
    /\ now' = now + 1
    /\ UNCHANGED <<users, photos, files, userSeq, photoSeq, pc, req, last, prev, derived, deleted>>

(***************************************************************************)
(* The service                                                             *)
(***************************************************************************)
Init ==
    /\ users = <<>>
    /\ photos = <<>>
    /\ files = <<>>
    /\ userSeq = 0
    /\ photoSeq = 0
    /\ now = 0
    /\ pc = [p \in Workers |-> "idle"]
    /\ req = [p \in Workers |-> NoReq]
    /\ last = NoResp
    /\ prev = NoResp
    /\ derived = {}
    /\ deleted = <<>>

\* One server process taking one request at a time.
Next ==
    \/ CreateUserCheck("w1", AliceCreate)
    \/ CreateUserCommit("w1")
    \/ \E id \in UserIds : DeleteUserLoad("w1", id)
    \/ DeleteUserCommit("w1")
    \/ \E f \in UploadForms, u \in UserIds : UploadValidate("w1", f[1], u, f[2], f[3])
    \/ UploadWrite("w1")
    \/ UploadCommit("w1")
    \/ UploadRefresh("w1")
    \/ \E id \in PhotoIds : GetPhoto(id)
    \/ \E id \in PhotoIds : GetPhotoImage(id)
    \/ \E id \in PhotoIds : GetPhotoThumbnail(id)
    \/ \E id \in PhotoIds : DeletePhotoLoad("w1", id)
    \/ DeletePhotoCommit("w1")

Spec == Init /\ [][Next]_vars

\* Two server processes on one database: the user endpoints, statement by statement.
NextUsers ==
    \/ \E p \in Workers, d \in UserCreates : CreateUserCheck(p, d)
    \/ \E p \in Workers : CreateUserCommit(p)
    \/ \E p \in Workers, id \in UserIds, d \in UserUpdates : UpdateUserLoad(p, id, d)
    \/ \E p \in Workers : UpdateUserCommit(p)
    \/ \E p \in Workers, id \in UserIds : DeleteUserLoad(p, id)
    \/ \E p \in Workers : DeleteUserCommit(p)
    \/ \E id \in UserIds : GetUser(id)

SpecUsers == Init /\ [][NextUsers]_vars

(***************************************************************************)
(* The listing endpoints on a snapshot of the data                         *)
(***************************************************************************)
\* Rows as create_user leaves them, created at any time of the clock
UserRows ==
    {NewUser([username |-> n, display_name |-> "A", email |-> None], t) :
        n \in Usernames, t \in 0..MaxClock}

\* Users tables the service can hold: unique usernames, later ids created later
UserSnapshots ==
    {tbl \in UNION {[S -> UserRows] : S \in SUBSET UserIds} :
        \A i, j \in DOMAIN tbl :
            i < j => /\ tbl[i].username # tbl[j].username
                     /\ tbl[i].created_at <= tbl[j].created_at}

\* Rows as upload_photo leaves them for user 1, uploaded at any time of the clock
PhotoRows(id) ==
    {NewPhoto([file |-> f[1], user_id |-> 1, latitude |-> f[2], longitude |-> f[3],
               photo_id |-> id, thumbnail_created |-> FALSE], t) :
        f \in {<<JpegFile, 10, 20>>, <<Mp4File, -90, 180>>}, t \in 0..MaxClock}

PhotoSnapshots ==
    {tbl \in UNION {[S -> UNION {PhotoRows(id) : id \in PhotoIds}] : S \in SUBSET PhotoIds} :
        /\ \A i \in DOMAIN tbl : tbl[i] \in PhotoRows(i)
        /\ \A i, j \in DOMAIN tbl : i < j => tbl[i].upload_date <= tbl[j].upload_date}

\* The original files of the rows of tbl
FilesOf(tbl) ==
    LET paths == {tbl[id].storage_path : id \in DOMAIN tbl} IN
    [q \in paths |-> (CHOOSE f \in {JpegFile, Mp4File} : FileExt(f.filename) = q[3]).contents]

ListInit ==
    /\ \/ users \in UserSnapshots /\ photos = <<>>
       \/ users = [id \in {1} |-> NewUser(AliceCreate, 0)] /\ photos \in PhotoSnapshots
    /\ files = FilesOf(photos)
    /\ userSeq = MaxUsers
    /\ photoSeq = MaxPhotos
    /\ now = MaxClock
    /\ pc = [p \in Workers |-> "idle"]
    /\ req = [p \in Workers |-> NoReq]
    /\ last = NoResp
    /\ prev = NoResp
    /\ derived = {}
    /\ deleted = <<>>

\* Query parameters of the listing requests
UserSorts == {"created_at", "photo_count", "last_upload", "username", "id"}
PhotoSorts == {"upload_date", "file_size", "id"}
Orders == {"asc", "desc", "ASC"}
\* (limit, offset)
UserPages == {<<1, 0>>, <<1, 1>>, <<2, 0>>, <<100, 0>>, <<0, 0>>, <<101, 0>>, <<1, -1>>}
PhotoPages == {<<1, 0>>, <<1, 1>>, <<2, 0>>, <<500, 0>>, <<0, 0>>, <<501, 0>>, <<1, -1>>}

NextList ==
    \/ \E sort \in UserSorts, order \in Orders, pg \in UserPages :
           ListUsers(sort, order, pg[1], pg[2], None)
    \/ \E search \in {Some("ali"), Some("B")} : ListUsers("username", "asc", 2, 0, search)
    \/ \E u \in UserIds, sort \in PhotoSorts, order \in Orders, pg \in PhotoPages :
           ListUserPhotos(u, pg[1], pg[2], sort, order, None)
    \/ \E b \in {"20,0,30,10", "10,10,20,20", "20,0,30"} :
           ListUserPhotos(1, 2, 0, "upload_date", "desc", Some(b))
    \/ \E pg \in PhotoPages : GetPhotos(pg[1], pg[2])

SpecList == ListInit /\ [][NextList]_vars

(***************************************************************************)
(* upload_photo by itself, for one existing user                           *)
(***************************************************************************)
\* Every file with in-range and out-of-range coordinates
ValidationForms ==
    {JpegFile, Mp4File, ExeFile, BigPngFile, BigMovFile, ExactPngFile, ExactAviFile, BigExeFile}
        \X {10, 91} \X {20, 181}

\* After POST /users {alice}
UploadInit ==
    /\ users = [id \in {1} |-> NewUser(AliceCreate, 0)]
    /\ photos = <<>>
    /\ files = <<>>
    /\ userSeq = 1
    /\ photoSeq = 0
    /\ now = 0
    /\ pc = [p \in Workers |-> "idle"]
    /\ req = [p \in Workers |-> NoReq]
    /\ last = NoResp
    /\ prev = NoResp
    /\ derived = {}
    /\ deleted = <<>>

NextUpload ==
    \/ \E f \in ValidationForms, u \in 1..2 : UploadValidate("w1", f[1], u, f[2], f[3])
    \/ UploadWrite("w1")
    \/ UploadCommit("w1")
    \/ UploadRefresh("w1")

SpecUpload == UploadInit /\ [][NextUpload]_vars

(* The photo endpoints of one worker on a database that holds one user:    *)
(* upload, the three retrievals and delete_photo.                          *)
NextPhotos ==
    \/ \E f \in UploadForms, u \in 1..2 : UploadValidate("w1", f[1], u, f[2], f[3])
    \/ UploadWrite("w1")
    \/ UploadCommit("w1")
    \/ UploadRefresh("w1")
    \/ \E id \in PhotoIds : GetPhoto(id)
    \/ \E id \in PhotoIds : GetPhotoImage(id)
    \/ \E id \in PhotoIds : GetPhotoThumbnail(id)
    \/ \E id \in PhotoIds : DeletePhotoLoad("w1", id)
    \/ DeletePhotoCommit("w1")

SpecPhotos == UploadInit /\ [][NextPhotos]_vars

(***************************************************************************)
(* update_photo_location on stored photos, with the clock running          *)
(***************************************************************************)
\* User 1 with photos uploaded at time 0
LocationInit ==
    /\ users = [id \in {1} |-> NewUser(AliceCreate, 0)]
    /\ photos \in {tbl \in PhotoSnapshots : \A id \in DOMAIN tbl : tbl[id].upload_date = 0}
    /\ files = FilesOf(photos)
    /\ userSeq = 1
    /\ photoSeq = MaxPhotos
    /\ now = 0
    /\ pc = [p \in Workers |-> "idle"]
    /\ req = [p \in Workers |-> NoReq]
    /\ last = NoResp
    /\ prev = NoResp
    /\ derived = {}
    /\ deleted = <<>>

NextLocation ==
    \/ \E id \in PhotoIds, ll \in LocationUpdates : UpdateLocationLoad("w1", id, ll[1], ll[2])
    \/ UpdateLocationCommit("w1")
    \/ \E id \in PhotoIds : GetPhoto(id)
    \/ Tick

SpecLocation == LocationInit /\ [][NextLocation]_vars

(***************************************************************************)
(* Two server processes on one database: one serves the photo requests     *)
(* while the other serves the user requests                                *)
(***************************************************************************)
RaceForms == {<<JpegFile, 10, 20>>, <<BigPngFile, 10, 20>>}

NextRace ==
    \/ CreateUserCheck("w2", AliceCreate)
    \/ CreateUserCommit("w2")
    \/ \E id \in UserIds : DeleteUserLoad("w2", id)
    \/ DeleteUserCommit("w2")
    \/ \E f \in RaceForms, u \in UserIds : UploadValidate("w1", f[1], u, f[2], f[3])
    \/ UploadWrite("w1")
    \/ UploadCommit("w1")
    \/ UploadRefresh("w1")
    \/ \E id \in PhotoIds : DeletePhotoLoad("w1", id)
    \/ DeletePhotoCommit("w1")

SpecRace == Init /\ [][NextRace]_vars

(***************************************************************************)
(* Properties                                                              *)
(***************************************************************************)
\* The ids of the items of a listing response
ItemIds(resp) == {resp.body.items[i].id : i \in 1..Len(resp.body.items)}

\* C1: a DELETE /users/{id} for an existing user that no unexpected failure
\* interrupts succeeds, and afterwards the user row and every photo row of
\* that user are gone (so GET /photos/{pid} answers 404 for each of them).
DeleteUserCascades ==
    (last.op = "delete_user" /\ last.status # 404 /\ last.exc # "Exception") =>
        /\ last.status = 200
        /\ last.req.user_id \notin DOMAIN users
        /\ PhotosOf(photos, last.req.user_id) = {}

\* C2: on an unchanging table, a page and the page after it (same sort, order
\* and filter, same limit) share no item, and the first two pages of a result
\* of at most two pages together hold every matching item.
PagesPartition ==
    (prev.status = 200 /\ last.status = 200) =>
        /\ ItemIds(prev) \cap ItemIds(last) = {}
        /\ (prev.req.offset = 0 /\ prev.body.total <= 2 * prev.req.limit) =>
               Cardinality(ItemIds(prev) \cup ItemIds(last)) = prev.body.total

\* C3: after upload_photo has answered 500, neither the original nor the
\* thumbnail of that upload is on disk and no row with its id is stored.
FailedUploadLeavesNothing ==
    (last.op = "upload_photo" /\ last.status = 500) =>
        /\ last.detail = [msg |-> "Failed to upload photo", arg |-> None]
        /\ ~Exists(files, StoragePath(last.req.photo_id, FileExt(last.req.file.filename)))
        /\ ~Exists(files, ThumbnailPath(last.req.photo_id))
        /\ last.req.photo_id \notin DOMAIN photos

\* C4: a step in which upload_photo answers with a client error (unknown user,
\* extension, latitude, longitude, size) leaves the files on disk and the
\* photos table exactly as they were.
RejectedUploadChangesNothing ==
    [][(last'.op = "upload_photo" /\ last'.status \in 400..499) =>
           (files' = files /\ photos' = photos)]_vars

RejectedUploadWitness ==
    /\ last.op = "upload_photo"
    /\ last.status = 400
    /\ last.detail.msg = "File too large. Maximum size for "
    /\ DOMAIN photos # {}

\* C5: when upload_photo answers 200, the row of the returned id carries the
\* request's user, latitude and longitude, its storage_path names a file with
\* exactly the uploaded bytes, GET /photos/{id} would return those coordinates
\* and GET /photos/{id}/image that file; and the commit step added that one
\* row and touched no other.
UploadStoresTheRequest ==
    /\ [](last.op = "upload_photo" /\ last.status = 200 =>
            LET r == last.req
                id == last.body.id
            IN
            /\ id \in DOMAIN photos
            /\ photos[id].user_id = r.user_id
            /\ photos[id].latitude = r.latitude
            /\ photos[id].longitude = r.longitude
            /\ last.body.location = [latitude |-> r.latitude, longitude |-> r.longitude]
            /\ PhotoToDict(id, photos[id]).location = last.body.location
            /\ Exists(files, photos[id].storage_path)
            /\ FileResponse(photos[id].storage_path, photos[id].mime_type).content
                   = r.file.contents)
    /\ [][\A p \in Workers :
            (pc[p] = "upload_commit" /\ pc'[p] = "upload_refresh") =>
                /\ req[p].photo_id \notin DOMAIN photos
                /\ DOMAIN photos' = DOMAIN photos \cup {req[p].photo_id}
                /\ \A k \in DOMAIN photos : photos'[k] = photos[k]]_vars

UploadStoresWitness ==
    /\ last.op = "upload_photo"
    /\ last.status = 200
    /\ last.req.latitude # last.req.longitude
    /\ Cardinality(DOMAIN photos) = 2

\* C6: once DELETE /photos/{id} has answered 200, the row is gone and so are
\* the files its storage_path and thumbnail_path named; every later GET of the
\* photo, its image or its thumbnail answers 404; and the deleting step leaves
\* every other row, and the files of every other row, as they were.
DeletedPhotoIsGone ==
    /\ [](\A id \in DOMAIN deleted :
            /\ id \notin DOMAIN photos
            /\ ~Exists(files, deleted[id].storage_path)
            /\ deleted[id].thumbnail_path # None =>
                   ~Exists(files, deleted[id].thumbnail_path[1]))
    /\ []((last.op \in {"get_photo", "get_photo_image", "get_photo_thumbnail"}
            /\ last.req.photo_id \in DOMAIN deleted) => last.status = 404)
    /\ [][\A p \in Workers :
            (pc[p] = "delete_photo_commit" /\ pc'[p] = "idle") =>
                \A k \in DOMAIN photos \ {req[p].photo_id} :
                    /\ k \in DOMAIN photos'
                    /\ photos'[k] = photos[k]
                    /\ Exists(files', photos[k].storage_path)
                           = Exists(files, photos[k].storage_path)
                    /\ photos[k].thumbnail_path # None =>
                           Exists(files', photos[k].thumbnail_path[1])
                               = Exists(files, photos[k].thumbnail_path[1])]_vars

DeletedPhotoWitness ==
    \E id \in DOMAIN deleted :
        /\ deleted[id].thumbnail_path # None
        /\ last.op = "get_photo_thumbnail"
        /\ last.req.photo_id = id
        /\ \E k \in DOMAIN photos : photos[k].thumbnail_path # None

\* C7: a create_user whose username or non-null email another user holds when
\* it completes, and an update_user whose email another user holds when it
\* completes, is answered with a 4xx (unexpected failures set aside).
DuplicatesAreClientErrors ==
    /\ (last.op = "create_user" /\ last.exc # "Exception") =>
           LET d == last.req.user_data
               self == IF last.status = 201 THEN {last.body.id} ELSE {}
           IN ((UsernameTaken(users, d.username, self) \/ EmailTaken(users, d.email, self))
                  => last.status \in 400..499)
    /\ (last.op = "update_user" /\ last.exc # "Exception"
            /\ EmailTaken(users, last.req.user_data.email, {last.req.user_id}))
           => last.status \in 400..499

\* C8: a listing request with a limit outside 1..100 (GET /users) or 1..500
\* (GET /photos, GET /users/{id}/photos) or with a negative offset is answered
\* with a 4xx, and no listing answers with more items than that upper bound
\* (unexpected failures set aside).
PaginationBoundsEnforced ==
    (last.op \in {"list_users", "list_user_photos", "get_photos"}
        /\ last.exc # "Exception") =>
        LET upper == IF last.op = "list_users" THEN 100 ELSE 500 IN
        /\ (last.req.limit < 1 \/ last.req.limit > upper \/ last.req.offset < 0)
               => last.status \in 400..499
        /\ last.status = 200 => Len(last.body.items) <= upper

\* C9: the detail of a 500 is a fixed message: no part of it is taken from
\* the exception.
ServerErrorsAreGeneric ==
    last.status = 500 => last.detail.arg = None

\* C10: a stored row names a thumbnail, and the responses built from it carry
\* a thumbnail_url, exactly when the derivation succeeded for that photo; the
\* upload response likewise; and upload_photo answers 500 only when an
\* exception was raised, which a failed derivation does not do.
ThumbnailUrlIffDerived ==
    /\ \A id \in DOMAIN photos :
           /\ (photos[id].thumbnail_path # None) = (id \in derived)
           /\ (PhotoToDict(id, photos[id]).thumbnail_url # None) = (id \in derived)
    /\ (last.op = "upload_photo" /\ last.status = 200) =>
           (last.body.thumbnail_url # None) = (last.body.id \in derived)
    /\ (last.op = "get_photo" /\ last.status = 200) =>
           (last.body.thumbnail_url # None) = (last.body.id \in derived)
    /\ (last.op = "upload_photo" /\ last.status = 500) => last.exc = "Exception"

ThumbnailFailedWitness ==
    /\ last.op = "upload_photo"
    /\ last.status = 200
    /\ last.body.thumbnail_url = None
    /\ last.body.id \in DOMAIN photos
    /\ photos[last.body.id].thumbnail_path = None
    /\ Exists(files, photos[last.body.id].storage_path)

\* C11: a 200 answer of GET /users/{id}/photos with a bounding box holds only
\* photos of that user with south <= latitude <= north and west <= longitude
\* <= east, its total counts every such photo, and a page large enough for
\* the total holds every one of them.
BoundsSelectTheBox ==
    (last.op = "list_user_photos" /\ last.status = 200 /\ last.req.params[4] # None) =>
        LET b == ParseBounds(last.req.params[4][1])[1]
            uid == last.req.params[1]
            inside == {id \in DOMAIN photos :
                         /\ photos[id].user_id = uid
                         /\ b.south <= photos[id].latitude
                         /\ photos[id].latitude <= b.north
                         /\ b.west <= photos[id].longitude
                         /\ photos[id].longitude <= b.east}
        IN
        /\ ItemIds(last) \subseteq inside
        /\ last.body.total = Cardinality(inside)
        /\ (last.req.offset = 0 /\ last.req.limit >= last.body.total) => ItemIds(last) = inside

BoundsWitness ==
    /\ last.op = "list_user_photos"
    /\ last.status = 200
    /\ last.req.params[4] = Some("10,10,20,20")
    /\ last.body.total = 1
    /\ Cardinality(PhotosOf(photos, last.req.params[1])) = 2

\* C12: the step that reads the uploaded bytes answers 400 exactly when their
\* count exceeds 10*1024*1024 for an image extension and 100*1024*1024 for a
\* video extension (.mp4, .mov, .avi, .webm); a count equal to the ceiling
\* passes.
SizeCeilingByType ==
    [][\A p \in Workers :
         pc[p] = "upload_read" /\ pc'[p] # "upload_read" =>
            LET f == req[p].file
                ceiling == IF FileExt(f.filename) \in {".mp4", ".mov", ".avi", ".webm"}
                           THEN 100 * 1024 * 1024 ELSE 10 * 1024 * 1024
            IN (last'.status = 400) = (f.contents.size > ceiling)]_vars

SizeCeilingWitness ==
    /\ last.op = "upload_photo"
    /\ last.status = 200
    /\ last.req.file = Mp4File
    /\ \E id \in DOMAIN photos : photos[id].file_size = 10 * 1024 * 1024

\* C16: when upload_photo answers with a client error, the error is that of
\* the first violated rule in the order user existence, extension, latitude,
\* longitude, size; and a request that violates a rule is answered with one
\* (unexpected failures set aside).
ValidationOrder ==
    (last.op = "upload_photo" /\ last.exc # "Exception") =>
        LET r == last.req
            ceiling == IF FileExt(r.file.filename) \in {".mp4", ".mov", ".avi", ".webm"}
                       THEN 100 * 1024 * 1024 ELSE 10 * 1024 * 1024
            first == IF r.user_id \notin DOMAIN users THEN <<404, "User not found: ">>
                     ELSE IF FileExt(r.file.filename) \notin ALLOWED_EXTENSIONS
                          THEN <<400, "Invalid file type. Allowed: ">>
                     ELSE IF r.latitude < -90 \/ r.latitude > 90
                          THEN <<400, "Invalid latitude: ">>
                     ELSE IF r.longitude < -180 \/ r.longitude > 180
                          THEN <<400, "Invalid longitude: ">>
                     ELSE IF r.file.contents.size > ceiling
                          THEN <<400, "File too large. Maximum size for ">>
                     ELSE <<200, "">>
        IN <<last.status, last.detail.msg>> = first

ValidationOrderWitness ==
    /\ last.op = "upload_photo"
    /\ last.status = 400
    /\ last.detail.msg = "Invalid latitude: "
    /\ last.req.file = BigPngFile
    /\ last.req.longitude = 181

\* C13: every page of list_users and of list_user_photos is non-decreasing in
\* the sort column when order is "asc" and non-increasing for any other order;
\* a sort key outside the enumerated ones means last_upload (users) or
\* upload_date (photos); every page of GET /photos is non-increasing in
\* upload_date.
PagesAreSorted ==
    (last.op \in {"list_users", "list_user_photos", "get_photos"} /\ last.status = 200) =>
        LET items == last.body.items
            sort == IF last.op = "list_users" THEN last.req.params[1]
                    ELSE IF last.op = "list_user_photos" THEN last.req.params[2]
                    ELSE "upload_date"
            ascending == IF last.op = "list_users" THEN last.req.params[2] = "asc"
                         ELSE IF last.op = "list_user_photos" THEN last.req.params[3] = "asc"
                         ELSE FALSE
            key(it) == IF last.op = "list_users"
                       THEN CASE sort = "created_at" -> Some(it.created_at)
                              [] sort = "photo_count" -> Some(it.photo_count)
                              [] sort = "username" -> Some(Collate(it.username))
                              [] OTHER -> it.last_upload_at
                       ELSE CASE sort = "file_size" -> Some(it.file_size)
                              [] OTHER -> Some(it.upload_date)
        IN \A i, j \in 1..Len(items) :
               i < j => IF ascending THEN ColumnLE(key(items[i]), key(items[j]))
                                     ELSE ColumnLE(key(items[j]), key(items[i]))

PagesAreSortedWitness ==
    /\ last.op = "list_user_photos"
    /\ last.status = 200
    /\ last.req.params[2] = "id"
    /\ last.req.params[3] = "ASC"
    /\ Len(last.body.items) = 2
    /\ last.body.items[1].upload_date > last.body.items[2].upload_date

\* C14: a PATCH /photos/{id}/location that answers 200 leaves every stored
\* field of the photo other than latitude and longitude (updated_at among
\* them) and every other photo as they were; one that is rejected for an
\* out-of-range coordinate leaves the photos table as it was.
LocationUpdateChangesOnlyCoordinates ==
    [][\A p \in Workers :
         (pc[p] = "update_location_commit" /\ pc'[p] = "idle") =>
            /\ last'.status = 200 =>
                  /\ photos'[req[p].photo_id] =
                         [photos[req[p].photo_id] EXCEPT !.latitude = req[p].latitude,
                                                         !.longitude = req[p].longitude]
                  /\ \A k \in DOMAIN photos \ {req[p].photo_id} : photos'[k] = photos[k]
            /\ last'.status \in 400..499 => photos' = photos]_vars

\* C14, amended: a PATCH /photos/{id}/location that answers 200 stores the
\* request's latitude and longitude, sets updated_at to the time of the
\* update when a coordinate changed, and leaves every other stored field of
\* the photo and every other photo as they were; one that is rejected for an
\* out-of-range coordinate leaves the photos table as it was.
LocationUpdateKeepsOtherFields ==
    [][\A p \in Workers :
         (pc[p] = "update_location_commit" /\ pc'[p] = "idle") =>
            /\ last'.status = 200 =>
                  LET id == req[p].photo_id
                      changed == photos[id].latitude # req[p].latitude
                                    \/ photos[id].longitude # req[p].longitude
                  IN
                  /\ photos'[id] =
                         [photos[id] EXCEPT !.latitude = req[p].latitude,
                                            !.longitude = req[p].longitude,
                                            !.updated_at = IF changed THEN now ELSE @]
                  /\ \A k \in DOMAIN photos \ {id} : photos'[k] = photos[k]
            /\ last'.status \in 400..499 => photos' = photos]_vars

LocationUpdateWitness ==
    /\ last.op = "update_photo_location"
    /\ last.status = 200
    /\ Cardinality(DOMAIN photos) = 2
    /\ photos[last.req.photo_id].updated_at > photos[last.req.photo_id].created_at
    /\ photos[last.req.photo_id].latitude # last.req.photo.latitude

\* C15: GET /photos/{id}/image answers 404 when the row exists and the file at
\* its storage_path does not; GET /photos/{id}/thumbnail answers 404 when the
\* row exists and its thumbnail_path is null or names no file; GET /photos/{id}
\* answers the detail whenever the row exists; and no retrieval changes a row
\* or a file.
RetrievalChecksTheFile ==
    /\ []((last.op = "get_photo_image" /\ last.req.photo_id \in DOMAIN photos
              /\ ~Exists(files, photos[last.req.photo_id].storage_path))
            => last.status = 404)
    /\ []((last.op = "get_photo_thumbnail" /\ last.req.photo_id \in DOMAIN photos
              /\ (\/ photos[last.req.photo_id].thumbnail_path = None
                  \/ ~Exists(files, photos[last.req.photo_id].thumbnail_path[1])))
            => last.status = 404)
    /\ []((last.op = "get_photo" /\ last.req.photo_id \in DOMAIN photos)
            => (last.status = 200 /\ last.body.id = last.req.photo_id))
    /\ [][last'.op \in {"get_photo", "get_photo_image", "get_photo_thumbnail"}
            => (photos' = photos /\ files' = files /\ users' = users)]_vars

RetrievalWitness ==
    /\ last.op = "get_photo_image"
    /\ last.status = 404
    /\ last.detail.msg = "Image file not found"
    /\ last.req.photo_id \in DOMAIN photos
    /\ photos[last.req.photo_id].thumbnail_path # None

\* C17: when delete_photo answers 500 the row is still stored as it was and,
\* if it was the commit that failed, the files it names are gone; the file of a stored row, once missing, stays
\* missing; while the row is stored and its file is missing GET /photos/{id}
\* answers the detail and GET /photos/{id}/image answers 404; and a
\* delete_photo of a row whose files are already missing, when its commit
\* does not fail, answers 200 and removes the row.
DeleteIsNotAtomic ==
    /\ []((last.op = "delete_photo" /\ last.status = 500) =>
            /\ last.req.photo_id \in DOMAIN photos
            /\ photos[last.req.photo_id] = last.req.photo
            /\ last.exc = "Exception" =>
                   /\ ~Exists(files, last.req.photo.storage_path)
                   /\ last.req.photo.thumbnail_path # None =>
                          ~Exists(files, last.req.photo.thumbnail_path[1]))
    /\ [][\A id \in DOMAIN photos \cap DOMAIN photos' :
            ~Exists(files, photos[id].storage_path)
                => ~Exists(files', photos'[id].storage_path)]_vars
    /\ []((last.op \in {"get_photo", "get_photo_image"}
             /\ last.req.photo_id \in DOMAIN photos
             /\ ~Exists(files, photos[last.req.photo_id].storage_path))
            => last.status = (IF last.op = "get_photo" THEN 200 ELSE 404))
    /\ [][\A p \in Workers :
            (pc[p] = "delete_photo_commit" /\ pc'[p] = "idle"
                /\ ~Exists(files, req[p].photo.storage_path)
                /\ last'.exc = "none")
            => (last'.status = 200 /\ req[p].photo_id \notin DOMAIN photos')]_vars

DeleteIsNotAtomicWitness ==
    /\ last.op = "delete_photo"
    /\ last.status = 500
    /\ last.exc = "Exception"
    /\ last.req.photo.thumbnail_path # None
    /\ last.req.photo_id \in DOMAIN photos
    /\ ~Exists(files, last.req.photo.storage_path)
    /\ Cardinality(DOMAIN photos) = 2

\* C18: every stored photo row names a stored user, whatever the order in which
\* the statements of concurrent upload_photo, delete_photo, create_user and
\* delete_user requests reach the database.
ReferentialIntegrity ==
    \A id \in DOMAIN photos : photos[id].user_id \in DOMAIN users

ReferentialIntegrityWitness ==
    \E p \in Workers :
        /\ pc[p] = "upload_commit"
        /\ req[p].user_id \notin DOMAIN users
        /\ last.op = "delete_user"
        /\ last.status = 200
        /\ last.req.user_id = req[p].user_id

\* C19: no two stored users have the same username, no two have the same
\* non-null email, and no step changes the username of a stored user, whatever
\* the order in which the statements of concurrent create_user and update_user
\* requests reach the database.
UsersStayUnique ==
    /\ [](\A a, b \in DOMAIN users :
            a # b => /\ users[a].username # users[b].username
                     /\ users[a].email # None => users[a].email # users[b].email)
    /\ [][\A id \in DOMAIN users \cap DOMAIN users' :
            users'[id].username = users[id].username]_vars

UsersStayUniqueWitness ==
    /\ last.op = "update_user"
    /\ last.status = 500
    /\ last.exc = "IntegrityError"
    /\ Cardinality(DOMAIN users) = 2
    /\ \E a \in DOMAIN users : users[a].email = last.req.user_data.email

\* C20: a PATCH /users/{id} that is answered 400 or 500 leaves the stored
\* users as they were, so a later GET /users/{id} shows the old display_name
\* and the old email.
UpdateUserAllOrNothing ==
    [][(last'.op = "update_user" /\ last'.status \in {400, 500}) => users' = users]_vars
====
